---------------------------- MODULE Spec2Model ----------------------------
(***************************************************************************)
(* A model of isf-converter-py: the ISF reader/writer of                   *)
(* src/isfconverter/isfreader.py.                                          *)
(*                                                                         *)
(* Representation.                                                         *)
(*   - A byte and a character are the same thing, a code in 0..255: the    *)
(*     reader decodes the raw bytes as latin-1 (ENCODING), which maps byte *)
(*     b to the character with code b.  A Python str and a Python bytes    *)
(*     object are both sequences of codes.  Txt(<<"A","B">>) is the str    *)
(*     "AB".                                                               *)
(*   - A Python float is a fixed-point number counted in halves: the       *)
(*     float 1.5 is the integer 3.  Results that are not a whole number    *)
(*     of halves are rounded to one, as a float result is rounded to its   *)
(*     own precision.                                                      *)
(*   - A value of the header dict is a record [t, n, s]: t is the Python   *)
(*     type ("int", "float", "str"), n the number (an int as itself, a     *)
(*     float in halves), s the characters of a str.                        *)
(*   - A call that raises returns [ok |-> FALSE, exc |-> <exception>].     *)
(***************************************************************************)
EXTENDS Integers, Sequences, FiniteSets, TLC

VARIABLES
    numpy,   \* the numpy build the program runs on: "1.17", "1.19" or "1.20"
    disk,    \* the file at `filename`: [exists, data]
    call,    \* the call under way: its name and arguments
    ret,     \* what the call returned or raised
    pc       \* the harness's position

vars == <<numpy, disk, call, ret, pc>>

-----------------------------------------------------------------------------
(* Characters *)

Ord ==
    (" " :> 32) @@ ("!" :> 33) @@ ("\"" :> 34) @@ ("#" :> 35) @@ ("$" :> 36) @@
    ("%" :> 37) @@ ("&" :> 38) @@ ("'" :> 39) @@ ("(" :> 40) @@ (")" :> 41) @@
    ("*" :> 42) @@ ("+" :> 43) @@ ("," :> 44) @@ ("-" :> 45) @@ ("." :> 46) @@
    ("/" :> 47) @@ ("0" :> 48) @@ ("1" :> 49) @@ ("2" :> 50) @@ ("3" :> 51) @@
    ("4" :> 52) @@ ("5" :> 53) @@ ("6" :> 54) @@ ("7" :> 55) @@ ("8" :> 56) @@
    ("9" :> 57) @@ (":" :> 58) @@ (";" :> 59) @@ ("<" :> 60) @@ ("=" :> 61) @@
    (">" :> 62) @@ ("?" :> 63) @@ ("@" :> 64) @@ ("A" :> 65) @@ ("B" :> 66) @@
    ("C" :> 67) @@ ("D" :> 68) @@ ("E" :> 69) @@ ("F" :> 70) @@ ("G" :> 71) @@
    ("H" :> 72) @@ ("I" :> 73) @@ ("J" :> 74) @@ ("K" :> 75) @@ ("L" :> 76) @@
    ("M" :> 77) @@ ("N" :> 78) @@ ("O" :> 79) @@ ("P" :> 80) @@ ("Q" :> 81) @@
    ("R" :> 82) @@ ("S" :> 83) @@ ("T" :> 84) @@ ("U" :> 85) @@ ("V" :> 86) @@
    ("W" :> 87) @@ ("X" :> 88) @@ ("Y" :> 89) @@ ("Z" :> 90) @@ ("[" :> 91) @@
    ("]" :> 93) @@ ("^" :> 94) @@ ("_" :> 95) @@ ("a" :> 97) @@
    ("b" :> 98) @@ ("c" :> 99) @@ ("d" :> 100) @@ ("e" :> 101) @@ ("f" :> 102) @@
    ("g" :> 103) @@ ("h" :> 104) @@ ("i" :> 105) @@ ("j" :> 106) @@ ("k" :> 107) @@
    ("l" :> 108) @@ ("m" :> 109) @@ ("n" :> 110) @@ ("o" :> 111) @@ ("p" :> 112) @@
    ("q" :> 113) @@ ("r" :> 114) @@ ("s" :> 115) @@ ("t" :> 116) @@ ("u" :> 117) @@
    ("v" :> 118) @@ ("w" :> 119) @@ ("x" :> 120) @@ ("y" :> 121) @@ ("z" :> 122) @@
    ("{" :> 123) @@ ("|" :> 124) @@ ("}" :> 125) @@ ("~" :> 126)

\* The str (or bytes) spelled by a tuple of one-character strings.
Txt(cs) == [i \in 1..Len(cs) |-> Ord[cs[i]]]

\* One character's code.
Ch(c) == Ord[c]

\* The decimal digits of a natural number: Python's str(n) for n >= 0.
RECURSIVE DecStr(_)
DecStr(n) ==
    IF n < 10 THEN <<48 + n>>
    ELSE Append(DecStr(n \div 10), 48 + (n % 10))

IsDigit(c) == c >= 48 /\ c <= 57

\* 10^k
RECURSIVE Pow10(_)
Pow10(k) == IF k <= 0 THEN 1 ELSE 10 * Pow10(k - 1)

\* A local variable: Body of the value of v, with v evaluated once.
Let(v, Body(_)) == CHOOSE r \in {Body(x) : x \in {v}} : TRUE

-----------------------------------------------------------------------------
(* Python values and results *)

PyInt(n)   == [t |-> "int",   n |-> n, s |-> <<>>]
PyFloat(h) == [t |-> "float", n |-> h, s |-> <<>>]
PyStr(s)   == [t |-> "str",   n |-> 0, s |-> s]

IsNum(v) == v.t \in {"int", "float"}

\* A number as a float, in halves.
AsHalves(v) == IF v.t = "int" THEN 2 * v.n ELSE v.n

Raise(e) == [ok |-> FALSE, exc |-> e]
Return(v) == [ok |-> TRUE, exc |-> "", val |-> v]

None == [ok |-> FALSE, exc |-> "not called"]

\* Python's str(v) of a header value.  A float prints its whole part, a
\* point and the digit of its half ("2.0", "2.5").
PyStrOf(v) ==
    LET mag == IF v.n < 0 THEN -v.n ELSE v.n
        sgn == IF v.n < 0 THEN <<45>> ELSE <<>>
    IN  CASE v.t = "str" -> v.s
          [] v.t = "int" -> sgn \o DecStr(mag)
          [] OTHER       -> sgn \o DecStr(mag \div 2) \o <<46>>
                                \o (IF mag % 2 = 1 THEN <<53>> ELSE <<48>>)

\* A dict as a function; d[k] = v added or overwritten.
DictSet(d, k, v) ==
    [x \in DOMAIN d \cup {k} |-> IF x = k THEN v ELSE d[x]]

EmptyDict == [x \in {} |-> PyInt(0)]

-----------------------------------------------------------------------------
(* Header field names and tokens *)

K_NR_PT  == Txt(<<"N","R","_","P","T">>)
K_BYT_NR == Txt(<<"B","Y","T","_","N","R">>)
K_BIT_NR == Txt(<<"B","I","T","_","N","R">>)
K_ENCDG  == Txt(<<"E","N","C","D","G">>)
K_BN_FMT == Txt(<<"B","N","_","F","M","T">>)
K_BYT_OR == Txt(<<"B","Y","T","_","O","R">>)
K_PT_FMT == Txt(<<"P","T","_","F","M","T">>)
K_XINCR  == Txt(<<"X","I","N","C","R">>)
K_XZERO  == Txt(<<"X","Z","E","R","O">>)
K_XSTOP  == Txt(<<"X","S","T","O","P">>)
K_PT_OFF == Txt(<<"P","T","_","O","F","F">>)
K_YMULT  == Txt(<<"Y","M","U","L","T">>)
K_YOFF   == Txt(<<"Y","O","F","F">>)
K_YZERO  == Txt(<<"Y","Z","E","R","O">>)
K_CURVE  == Txt(<<"C","U","R","V","E">>)

T_MSB == Txt(<<"M","S","B">>)
T_LSB == Txt(<<"L","S","B">>)
T_RI  == Txt(<<"R","I">>)
T_RP  == Txt(<<"R","P">>)
T_FP  == Txt(<<"F","P">>)
T_Y   == Txt(<<"Y">>)
T_ENV == Txt(<<"E","N","V">>)
T_XY  == Txt(<<"X","Y">>)
T_BIN    == Txt(<<"B","I","N">>)
T_BINARY == Txt(<<"B","I","N","A","R","Y">>)
T_ASCII  == Txt(<<"A","S","C","I","I">>)

-----------------------------------------------------------------------------
(* Format descriptor table *)

fmt_isf_to_numpy ==
    (T_MSB :> Txt(<<">">>)) @@
    (T_LSB :> Txt(<<"<">>)) @@
    (T_RP  :> Txt(<<"u">>)) @@
    (T_RI  :> Txt(<<"i">>)) @@
    (T_FP  :> Txt(<<"f">>))

fmt_numpy_to_isf ==
    (Ch(">") :> T_MSB) @@
    (Ch("<") :> T_LSB) @@
    (Ch("u") :> T_RP) @@
    (Ch("i") :> T_RI) @@
    (Ch("f") :> T_FP)

\* header[key] used as a key of fmt_isf_to_numpy: a KeyError when the header
\* lacks the key or the table lacks the value.
FmtLookup(header, key) ==
    IF key \notin DOMAIN header THEN Raise("KeyError")
    ELSE IF header[key].t # "str" \/ header[key].s \notin DOMAIN fmt_isf_to_numpy
         THEN Raise("KeyError")
         ELSE Return(fmt_isf_to_numpy[header[key].s])

get_numpy_fmt(header) ==
    LET bo == FmtLookup(header, K_BYT_OR)
        bf == FmtLookup(header, K_BN_FMT)
    IN  IF ~bo.ok THEN bo
        ELSE IF ~bf.ok THEN bf
        ELSE IF K_BYT_NR \notin DOMAIN header THEN Raise("KeyError")
        ELSE Return(bo.val \o bf.val \o PyStrOf(header[K_BYT_NR]))

\* The widths numpy has for a kind: integers of 1, 2, 4, 8 bytes, floats of
\* 2, 4, 8 bytes.
ItemSizes(kind) ==
    IF kind = Ch("f") THEN {2, 4, 8} ELSE {1, 2, 4, 8}

\* numpy.dtype(s) of a string made by get_numpy_fmt: a byte-order character,
\* a kind character and one digit of width; anything else is not understood.
NpDtype(s) ==
    IF /\ Len(s) = 3
       /\ s[1] \in {Ch("<"), Ch(">")}
       /\ s[2] \in {Ch("i"), Ch("u"), Ch("f")}
       /\ IsDigit(s[3])
       /\ (s[3] - 48) \in ItemSizes(s[2])
    THEN Return([byteorder |-> s[1], kind |-> s[2], itemsize |-> s[3] - 48])
    ELSE Raise("TypeError")

\* dtype.str: the byte order is "|" (not applicable) for one-byte elements.
DtypeStr(dtype) ==
    <<IF dtype.itemsize = 1 THEN Ch("|") ELSE dtype.byteorder, dtype.kind>>
        \o DecStr(dtype.itemsize)

get_isf_fmt(dtype) ==
    LET str == DtypeStr(dtype)
    IN  IF str[1] \notin DOMAIN fmt_numpy_to_isf THEN Raise("KeyError")
        ELSE IF str[2] \notin DOMAIN fmt_numpy_to_isf THEN Raise("KeyError")
        ELSE Return(<<fmt_numpy_to_isf[str[1]], fmt_numpy_to_isf[str[2]], dtype.itemsize>>)

-----------------------------------------------------------------------------
(* Header parser: the pattern of get_head *)

\* \w of a Python str pattern, on the latin-1 characters.
IsWord(c) ==
    \/ c \in 48..57 \/ c \in 65..90 \/ c = 95 \/ c \in 97..122
    \/ c \in {170, 178, 179, 181, 185, 186} \/ c \in 188..190
    \/ c \in 192..214 \/ c \in 216..246 \/ c \in 248..255

\* \s of a Python str pattern, on the latin-1 characters.
IsSpace(c) == c \in 9..13 \/ c \in 28..32 \/ c \in {133, 160}

IsDelim(c) == c = Ch(":") \/ c = Ch(";")

\* [^;"]
IsValueChar(c) == c # Ch(";") /\ c # Ch("\"")

\* The end of the longest run of characters in a class from position p of s:
\* the first position from p on that holds no character of the class, the
\* position after the end of s if there is none.
RunEnd(s, p, In(_)) ==
    IF p > Len(s) THEN p
    ELSE CHOOSE e \in p..(Len(s) + 1) :
             /\ e > Len(s) \/ ~In(s[e])
             /\ \A j \in p..(e - 1) : In(s[j])

\* The first position >= p of s that holds ':' or ';', Len(s) + 1 if none.
NextDelim(s, p) == RunEnd(s, p, LAMBDA c : ~IsDelim(c))

\* The end of the longest run of \w from p: the first position that is not \w.
WordEnd(s, p) == RunEnd(s, p, IsWord)

\* The end of the longest run of [^;"] from p.
ValueEnd(s, p) == RunEnd(s, p, IsValueChar)

NoMatch == [ok |-> FALSE, name |-> <<>>, val |-> <<>>, start2 |-> 0, end |-> 0]

\* The match of (?:[:;])([\w]+)(?:\s)(?:")?([^;"]+) that starts at the
\* delimiter at position p, the run of \w after it ending at w.  \w+ is
\* followed by \s only at the end of the longest run; the optional quote is
\* taken when a value character follows it, and without it the quote itself is
\* no value character.  start2 is param.start(2), counted from 0; end is the
\* position after the match.
MatchFrom(s, p, w) ==
    LET q0 == w + 1
        quoted == q0 <= Len(s) /\ s[q0] = Ch("\"")
        q  == IF quoted THEN q0 + 1 ELSE q0
    IN  IF /\ w > p + 1
           /\ w <= Len(s)
           /\ IsSpace(s[w])
           /\ q <= Len(s)
           /\ IsValueChar(s[q])
        THEN Let(ValueEnd(s, q), LAMBDA e :
                 [ok |-> TRUE, name |-> SubSeq(s, p + 1, w - 1),
                  val |-> SubSeq(s, q, e - 1), start2 |-> q - 1, end |-> e])
        ELSE NoMatch

MatchAt(s, p) == Let(WordEnd(s, p + 1), LAMBDA w : MatchFrom(s, p, w))

\* One step of re.finditer from position p: the search goes to the next
\* delimiter; a match that starts there is taken and the search goes on where
\* it ended, otherwise it goes on after the delimiter.  [ms, end]: the match
\* taken (if any) and where the search goes on.
SearchStep(s, p) ==
    Let(NextDelim(s, p), LAMBDA d :
        IF d > Len(s) THEN [ms |-> <<>>, end |-> d]
        ELSE Let(MatchAt(s, d), LAMBDA m :
                 IF m.ok THEN [ms |-> <<m>>, end |-> m.end]
                 ELSE [ms |-> <<>>, end |-> d + 1]))

\* k steps of the search from position p (fewer when the string ends), the
\* first half of them and then the rest: [ms, end].
RECURSIVE Search(_, _, _)
Search(s, p, k) ==
    IF p > Len(s) THEN [ms |-> <<>>, end |-> p]
    ELSE IF k <= 1 THEN SearchStep(s, p)
    ELSE Let(Search(s, p, k \div 2), LAMBDA a :
             IF a.end > Len(s) THEN a
             ELSE Let(Search(s, a.end, k - (k \div 2)), LAMBDA b :
                      [ms |-> a.ms \o b.ms, end |-> b.end]))

\* re.finditer: the matches from position p on, leftmost first, each search
\* starting where the match before it ended.  (No search takes more steps
\* than the string has characters.)
Matches(s, p) == Search(s, p, Len(s) + 1).ms

-----------------------------------------------------------------------------
(* Header parser: int(val) and float(val) *)

\* The whitespace int() and float() strip from both ends.
IsStripped(c) == c \in 9..13 \/ c = 32

RECURSIVE LStrip(_)
LStrip(s) ==
    IF s # <<>> /\ IsStripped(s[1]) THEN LStrip(Tail(s)) ELSE s

RECURSIVE RStrip(_)
RStrip(s) ==
    IF s # <<>> /\ IsStripped(s[Len(s)]) THEN RStrip(SubSeq(s, 1, Len(s) - 1)) ELSE s

DigitsEnd(s, p) == RunEnd(s, p, IsDigit)

\* The number spelled by the digits s[a..b-1]; 0 for none.
RECURSIVE DigitsVal(_, _, _)
DigitsVal(s, a, b) ==
    IF b <= a THEN 0
    ELSE 10 * DigitsVal(s, a, b - 1) + (s[b - 1] - 48)

\* Where the whole digits, the fraction digits and the exponent digits of
\* the stripped text t start: after a sign, after the point that follows the
\* whole digits (ending at i1), after the "e" (and a sign) that follows the
\* fraction digits (ending at f1).
WholeStart(t) == IF t # <<>> /\ t[1] \in {Ch("+"), Ch("-")} THEN 2 ELSE 1

FractionStart(t, i1) == IF i1 <= Len(t) /\ t[i1] = Ch(".") THEN i1 + 1 ELSE i1

HasExponent(t, f1) == f1 <= Len(t) /\ t[f1] \in {Ch("e"), Ch("E")}

ExponentStart(t, f1) ==
    IF HasExponent(t, f1) /\ f1 + 1 <= Len(t) /\ t[f1 + 1] \in {Ch("+"), Ch("-")}
    THEN f1 + 2
    ELSE f1 + 1

\* The number spelled by the stripped text t, whose whole digits end at i1,
\* fraction digits at f1 and exponent digits at x2: [isInt, isFloat, n].
Number(t, i1, f1, x2) ==
    LET neg == t # <<>> /\ t[1] = Ch("-")
        i0  == WholeStart(t)
        f0  == FractionStart(t, i1)
        exp == HasExponent(t, f1)
        x1  == ExponentStart(t, f1)
        xneg == exp /\ x1 = f1 + 2 /\ t[f1 + 1] = Ch("-")
        last == IF exp THEN x2 ELSE f1
        isInt == i1 > i0 /\ i1 = Len(t) + 1
        isFloat == /\ (i1 > i0 \/ f1 > f0)
                   /\ (exp => x2 > x1)
                   /\ last = Len(t) + 1
        mant == DigitsVal(t, i0, i1) * Pow10(f1 - f0) + DigitsVal(t, f0, f1)
        e10  == (IF exp THEN (IF xneg THEN -1 ELSE 1) * DigitsVal(t, x1, x2) ELSE 0)
                    - (f1 - f0)
        mag  == IF e10 >= 0 THEN 2 * mant * Pow10(e10)
                ELSE (2 * mant) \div Pow10(-e10)
        sign == IF neg THEN -1 ELSE 1
    IN  IF isInt THEN [isInt |-> TRUE, isFloat |-> TRUE, n |-> sign * DigitsVal(t, i0, i1)]
        ELSE IF isFloat THEN [isInt |-> FALSE, isFloat |-> TRUE, n |-> sign * mag]
        ELSE [isInt |-> FALSE, isFloat |-> FALSE, n |-> 0]

\* int(val) then float(val): [isInt, isFloat, n].  An int is a sign and
\* digits; a float is a sign, digits with an optional point, and an optional
\* exponent.  n is the int, or the float in halves (rounded towards zero).
\* (Digit grouping with '_' and the words inf and nan are not in the inputs
\* of this model.)
ParseNumber(val) ==
    Let(RStrip(LStrip(val)), LAMBDA t :
    Let(DigitsEnd(t, WholeStart(t)), LAMBDA i1 :
    Let(DigitsEnd(t, FractionStart(t, i1)), LAMBDA f1 :
    Let(DigitsEnd(t, ExponentStart(t, f1)), LAMBDA x2 :
        Number(t, i1, f1, x2)))))

\* The value get_head stores: int(val), else float(val), else val itself.
Coerce(val) ==
    Let(ParseNumber(val), LAMBDA p :
        IF p.isInt THEN PyInt(p.n)
        ELSE IF p.isFloat THEN PyFloat(p.n)
        ELSE PyStr(val))

-----------------------------------------------------------------------------
(* get_head *)

\* The state of get_head's loop.
HeadAcc(head, data_start, data_size) ==
    [ok |-> TRUE, exc |-> "", head |-> head, data_start |-> data_start,
     data_size |-> data_size]

\* The CURVE branch: val is "#nxxxx".  n = int(val[1]), data_size =
\* int(val[2:n+2]) (a slice, cut at the end of val), data_start =
\* param.start(2) + 2 + n.
CurveStep(acc, m) ==
    LET nchr == IF Len(m.val) >= 2 THEN ParseNumber(<<m.val[2]>>)
                ELSE [isInt |-> FALSE, isFloat |-> FALSE, n |-> 0]
        n    == nchr.n
        hi   == IF n + 2 < Len(m.val) THEN n + 2 ELSE Len(m.val)
        size == ParseNumber(SubSeq(m.val, 3, hi))
    IN  IF Len(m.val) < 2 THEN Raise("IndexError")
        ELSE IF ~nchr.isInt THEN Raise("ValueError")
        ELSE IF ~size.isInt THEN Raise("ValueError")
        ELSE HeadAcc(acc.head, m.start2 + 2 + n, size.n)

MutHeadStep(acc, m) ==
    IF m.name # K_CURVE
    THEN HeadAcc(DictSet(acc.head, m.name, Coerce(m.val)), acc.data_start, acc.data_size)
    ELSE LET c == CurveStep(acc, m)
         IN  IF c.ok THEN HeadAcc(c.head, c.data_start - 1, c.data_size) ELSE c

\* One turn of the loop over the matches.
HeadStep(acc, m) ==
    IF m.name # K_CURVE
    THEN HeadAcc(DictSet(acc.head, m.name, Coerce(m.val)), acc.data_start, acc.data_size)
    ELSE CurveStep(acc, m)

\* The loop over the matches ms[lo..hi], the first half of them and then the
\* rest; a turn that raises ends the loop.
RECURSIVE HeadLoop(_, _, _, _)
HeadLoop(ms, lo, hi, acc) ==
    IF ~acc.ok \/ lo > hi THEN acc
    ELSE IF lo = hi THEN HeadStep(acc, ms[lo])
    ELSE Let(HeadLoop(ms, lo, (lo + hi) \div 2, acc), LAMBDA half :
             HeadLoop(ms, ((lo + hi) \div 2) + 1, hi, half))

\* head["BYT_NR"] * head["NR_PT"] != data_size.  Two numbers multiply; an int
\* times a str repeats the str, which is no number and differs from the size;
\* any other product raises.
SizeCheck(head, data_size) ==
    IF K_BYT_NR \notin DOMAIN head \/ K_NR_PT \notin DOMAIN head
    THEN Raise("KeyError")
    ELSE LET a == head[K_BYT_NR]
             b == head[K_NR_PT]
         IN  IF a.t = "int" /\ b.t = "int" THEN Return(a.n * b.n # data_size)
             ELSE IF IsNum(a) /\ IsNum(b)
                  THEN Return((AsHalves(a) * AsHalves(b)) # 4 * data_size)
             ELSE IF (a.t = "int" /\ b.t = "str") \/ (a.t = "str" /\ b.t = "int")
                  THEN Return(TRUE)
             ELSE Raise("TypeError")

\* get_head(raw_string): (head, data_start, data_size), and whether the size
\* warning was printed.
get_head(raw_string) ==
    Let(Matches(raw_string, 1), LAMBDA param_iter :
    Let(HeadLoop(param_iter, 1, Len(param_iter), HeadAcc(EmptyDict, 0, 0)), LAMBDA acc :
        IF ~acc.ok THEN Raise(acc.exc)
        ELSE Let(SizeCheck(acc.head, acc.data_size), LAMBDA chk :
                 IF ~chk.ok THEN chk
                 ELSE Return([head |-> acc.head, data_start |-> acc.data_start,
                              data_size |-> acc.data_size, warned |-> chk.val]))))

-----------------------------------------------------------------------------
(* SpecFmt: get_numpy_fmt on a header's three format fields, then get_isf_fmt
   on the numpy dtype of the result *)

MaxFmtWidth == 8

FmtTokens == {T_MSB, T_LSB, T_RI, T_RP, T_FP, T_ASCII}

FmtHeader(bo, bf, nr) ==
    (K_BYT_OR :> PyStr(bo)) @@ (K_BN_FMT :> PyStr(bf)) @@ (K_BYT_NR :> PyInt(nr))

NoDisk == [exists |-> FALSE, data |-> <<>>]

InitFmt ==
    /\ numpy = "1.20"
    /\ disk = NoDisk
    /\ \E bo \in FmtTokens, bf \in FmtTokens, nr \in 1..MaxFmtWidth :
           call = [fn |-> "get_numpy_fmt", header |-> FmtHeader(bo, bf, nr)]
    /\ ret = None
    /\ pc = "start"

GetNumpyFmt ==
    /\ pc = "start"
    /\ call.fn = "get_numpy_fmt"
    /\ ret' = get_numpy_fmt(call.header)
    /\ pc' = "resolved"
    /\ UNCHANGED <<numpy, disk, call>>

\* The caller makes the numpy dtype of the descriptor and unresolves it.
GetIsfFmt ==
    /\ pc = "resolved"
    /\ ret.ok
    /\ NpDtype(ret.val).ok
    /\ call' = [fn |-> "get_isf_fmt", header |-> call.header,
                dtype |-> NpDtype(ret.val).val]
    /\ ret' = get_isf_fmt(NpDtype(ret.val).val)
    /\ pc' = "unresolved"
    /\ UNCHANGED <<numpy, disk>>

NextFmt == GetNumpyFmt \/ GetIsfFmt

SpecFmt == InitFmt /\ [][NextFmt]_vars

\* The tokens and width of the header form a supported descriptor.
SupportedFmt(header) ==
    /\ header[K_BYT_OR].s \in {T_MSB, T_LSB}
    /\ header[K_BN_FMT].s \in {T_RI, T_RP, T_FP}
    /\ header[K_BYT_NR].n \in ItemSizes(fmt_isf_to_numpy[header[K_BN_FMT].s][1])

\* C5 (as claimed): for every supported (BYT_OR, BN_FMT, BYT_NR), get_isf_fmt of
\* the dtype made from get_numpy_fmt's descriptor returns the same three values.
C5_RoundTripTokens ==
    (pc = "unresolved" /\ SupportedFmt(call.header)) =>
        /\ ret.ok
        /\ ret.val = <<call.header[K_BYT_OR].s, call.header[K_BN_FMT].s,
                       call.header[K_BYT_NR].n>>

\* C10 (as claimed): get_numpy_fmt raises whenever BYT_OR is not MSB or LSB, or
\* BN_FMT is not RI, RP or FP.
C10_RejectsOutsideSet ==
    (pc = "resolved" /\ (\/ call.header[K_BYT_OR].s \notin {T_MSB, T_LSB}
                         \/ call.header[K_BN_FMT].s \notin {T_RI, T_RP, T_FP})) =>
        ~ret.ok

-----------------------------------------------------------------------------
(* SpecHead: get_head on the first bytes of a file *)

\* The most pieces a raw string is made of.
MaxTokens == 3

\* The pieces raw strings are made of: header fields, binary-block markers with
\* the bytes that follow them, a marker whose length is no number, and payload
\* bytes that hold a ';'.
HeadPieces ==
    { Txt(<<":","W","F","M","P","R","E",":","B","Y","T","_","N","R"," ","1",
            ";","N","R","_","P","T"," ","4">>),
      Txt(<<";","N","R","_","P","T"," ","2">>),
      Txt(<<";","W","F","I","D"," ","\"","C","h","1",","," ","D","C","\"">>),
      Txt(<<";","Y","O","F","F"," ","2",".","5">>),
      Txt(<<";","C","U","R","V","E"," ","#","1","4">>) \o <<200, 1, 0, 77>>,
      Txt(<<":","C","U","R","V","E"," ","#","2","0","3">>) \o <<7, 59, 128>>,
      Txt(<<";","C","U","R","V","E"," ","#","x">>),
      <<59, 0, 129>> }

\* The raw strings of at most k pieces.
RECURSIVE RawStrings(_)
RawStrings(k) ==
    IF k = 0 THEN {<<>>}
    ELSE LET shorter == RawStrings(k - 1)
         IN  shorter \cup {s \o p : s \in shorter, p \in HeadPieces}

InitHead ==
    /\ numpy = "1.20"
    /\ disk = NoDisk
    /\ \E s \in RawStrings(MaxTokens) :
           call = [fn |-> "get_head", raw_string |-> s]
    /\ ret = None
    /\ pc = "start"

GetHead ==
    /\ pc = "start"
    /\ call.fn = "get_head"
    /\ ret' = get_head(call.raw_string)
    /\ pc' = "parsed"
    /\ UNCHANGED <<numpy, disk, call>>

NextHead == GetHead

SpecHead == InitHead /\ [][NextHead]_vars

\* The matches of the pattern in the raw string whose name is CURVE.
CurveMatches(s) == SelectSeq(Matches(s, 1), LAMBDA m : m.name = K_CURVE)

\* The value of a match is '#', one digit n >= 1 and then n decimal digits.
IsBlockMarker(m) ==
    /\ Len(m.val) >= 2
    /\ m.val[1] = Ch("#")
    /\ m.val[2] \in 49..57
    /\ Len(m.val) >= 2 + (m.val[2] - 48)
    /\ \A i \in 3..(2 + (m.val[2] - 48)) : IsDigit(m.val[i])

\* C6: when get_head returns and the last match named CURVE has the value '#',
\* a digit n and n decimal digits, data_size is the number those n digits spell
\* in the raw string, data_start is the offset just after them (the '#' is 2 + n
\* before it), CURVE is no key of the head, and every other matched name is.
C6_CurveBounds ==
    (/\ pc = "parsed"
     /\ ret.ok
     /\ CurveMatches(call.raw_string) # <<>>) =>
        LET raw == call.raw_string
            cs  == CurveMatches(raw)
            m   == cs[Len(cs)]
            n   == m.val[2] - 48
            ds  == ret.val.data_start
        IN  IsBlockMarker(m) =>
                /\ ds - n - 1 >= 1
                /\ ds <= Len(raw)
                /\ raw[ds - n - 1] = Ch("#")
                /\ raw[ds - n] = 48 + n
                /\ ret.val.data_size = DigitsVal(raw, ds - n + 1, ds + 1)
                /\ K_CURVE \notin DOMAIN ret.val.head
                /\ \A i \in 1..Len(Matches(raw, 1)) :
                       Matches(raw, 1)[i].name # K_CURVE =>
                           Matches(raw, 1)[i].name \in DOMAIN ret.val.head

\* get_head has returned from a raw string with three fields and then a block
\* marker of two length digits.
C6_Witness ==
    /\ pc = "parsed"
    /\ ret.ok
    /\ Len(CurveMatches(call.raw_string)) = 1
    /\ IsBlockMarker(CurveMatches(call.raw_string)[1])
    /\ CurveMatches(call.raw_string)[1].val[2] = Ch("2")
    /\ ret.val.data_size = 3
    /\ ret.val.data_start > 30
    /\ Len(Matches(call.raw_string, 1)) >= 4

\* The characters "CURVE" stand somewhere in the string.
HasCurveText(s) ==
    \E i \in 1..Len(s) :
        /\ i + Len(K_CURVE) - 1 <= Len(s)
        /\ SubSeq(s, i, i + Len(K_CURVE) - 1) = K_CURVE

\* C7 (as claimed): get_head of bytes that hold no CURVE marker raises; it
\* returns no head and no payload bounds.
C7_NoMarkerFails ==
    (pc = "parsed" /\ ~HasCurveText(call.raw_string)) => ~ret.ok

-----------------------------------------------------------------------------
(* Elements of an array *)

RECURSIVE Pow2(_)
Pow2(k) == IF k <= 0 THEN 1 ELSE 2 * Pow2(k - 1)

\* The unsigned number held by the bytes b, most significant byte first.
RECURSIVE BigEndian(_)
BigEndian(b) ==
    IF b = <<>> THEN 0
    ELSE 256 * BigEndian(SubSeq(b, 1, Len(b) - 1)) + b[Len(b)]

Reversed(b) == [i \in 1..Len(b) |-> b[Len(b) + 1 - i]]

\* An IEEE 754 binary16 bit pattern as a float, in halves: 1 sign bit, 5
\* exponent bits (bias 15), 10 fraction bits.  Subnormals are below the
\* resolution.  (The all-ones exponent, Inf and NaN, is in no payload of this
\* model.)
Float16(bits) ==
    LET sign == IF bits >= 32768 THEN -1 ELSE 1
        e    == (bits \div 1024) % 32
        frac == bits % 1024
        k    == e - 24
    IN  IF e = 0 THEN 0
        ELSE IF k >= 0 THEN sign * (1024 + frac) * Pow2(k)
        ELSE sign * ((1024 + frac) \div Pow2(-k))

\* One element of a buffer read with a dtype, as a number in halves.
Element(b, dtype) ==
    LET u == IF dtype.byteorder = Ch(">") THEN BigEndian(b) ELSE BigEndian(Reversed(b))
        top == Pow2(8 * dtype.itemsize)
    IN  CASE dtype.kind = Ch("u") -> 2 * u
          [] dtype.kind = Ch("i") -> 2 * (IF 2 * u >= top THEN u - top ELSE u)
          [] OTHER                -> Float16(u)

\* numpy.ndarray(shape=(count,), dtype=dtype, buffer=raw): the elements.
Elements(raw, dtype, count) ==
    [i \in 1..count |->
        Element(SubSeq(raw, (i - 1) * dtype.itemsize + 1, i * dtype.itemsize), dtype)]

\* A number of halves cast to a dtype, as numpy.linspace does for its dtype
\* argument.  An integer dtype keeps the whole part: rounded down since numpy
\* 1.20, towards zero before; out of the dtype's range it wraps (two's
\* complement).
CastTo(h, dtype, build) ==
    LET whole == IF build = "1.20" \/ h >= 0 THEN h \div 2 ELSE -((-h) \div 2)
        top   == Pow2(8 * dtype.itemsize)
        u     == whole % top
    IN  CASE dtype.kind = Ch("u") -> 2 * u
          [] dtype.kind = Ch("i") -> 2 * (IF 2 * u >= top THEN u - top ELSE u)
          [] OTHER                -> h

Float64 == [byteorder |-> Ch("<"), kind |-> Ch("f"), itemsize |-> 8]

Array(dtype, vals) == [dtype |-> dtype, vals |-> vals]

\* numpy.linspace(start, stop, num=num, dtype=dtypeStr); start and stop are
\* floats in halves, num is a header value.  A float num is refused since
\* numpy 1.18 and cut to an int (with a warning) before.  Element i is
\* start + i * (stop - start) / (num - 1), the last one stop itself.
Linspace(start, stop, num, dtypeStr, build) ==
    LET dt == NpDtype(dtypeStr)
        n  == IF num.t = "int" THEN num.n ELSE num.n \div 2
    IN  IF num.t = "str" THEN Raise("TypeError")
        ELSE IF num.t = "float" /\ build # "1.17" THEN Raise("TypeError")
        ELSE IF n < 0 THEN Raise("ValueError")
        ELSE IF ~dt.ok THEN Raise("TypeError")
        ELSE Return(Array(dt.val,
                 [i \in 1..n |->
                     CastTo(IF i = n /\ n > 1 THEN stop
                            ELSE IF n = 1 THEN start
                            ELSE start + (((i - 1) * (stop - start)) \div (n - 1)),
                            dt.val, build)]))

\* The product of two floats in halves.
Times(a, b) == (a * b) \div 2

\* ((arr - off) * mult) + zero on every element; the three header values are
\* floats, so the result is a float array.
Calibrate(vals, off, mult, zero) ==
    Array(Float64, [i \in 1..Len(vals) |-> Times(vals[i] - off, mult) + zero])

\* The header values named by keys, in order: a KeyError at the first one
\* missing, a TypeError at the first one that is no number.
RECURSIVE Numbers(_, _)
Numbers(head, keys) ==
    IF keys = <<>> THEN Return(<<>>)
    ELSE IF keys[1] \notin DOMAIN head THEN Raise("KeyError")
    ELSE LET rest == Numbers(head, Tail(keys))
         IN  IF ~rest.ok /\ rest.exc = "KeyError" THEN rest
             ELSE IF ~IsNum(head[keys[1]]) THEN Raise("TypeError")
             ELSE IF ~rest.ok THEN rest
             ELSE Return(<<AsHalves(head[keys[1]])>> \o rest.val)

-----------------------------------------------------------------------------
(* read_data_from_file, convert_data_y, convert_data_x *)

Min(a, b) == IF a <= b THEN a ELSE b

\* fid.seek(start_from); fid.read(data_size): what the file holds there, and
\* EOFError unless it is data_size bytes.
read_data_from_file(data, start_from, data_size) ==
    LET raw_data == IF data_size < 0
                    THEN SubSeq(data, start_from + 1, Len(data))
                    ELSE SubSeq(data, start_from + 1,
                                Min(start_from + data_size, Len(data)))
    IN  IF Len(raw_data) # data_size THEN Raise("EOFError")
        ELSE Return(raw_data)

\* numpy.ndarray(shape=(NR_PT // points_modifier,), dtype=numpy_type,
\* buffer=raw_data): the raw elements, or the error numpy raises.
RawArray(raw_data, head, points_modifier) ==
    Let(get_numpy_fmt(head), LAMBDA fmt :
        IF ~fmt.ok THEN fmt
        ELSE IF K_NR_PT \notin DOMAIN head THEN Raise("KeyError")
        ELSE IF head[K_NR_PT].t # "int" THEN Raise("TypeError")
        ELSE IF head[K_NR_PT].n \div points_modifier < 0 THEN Raise("ValueError")
        ELSE Let(NpDtype(fmt.val), LAMBDA dt :
                 LET count == head[K_NR_PT].n \div points_modifier
                 IN  IF ~dt.ok THEN Raise("TypeError")
                     ELSE IF Len(raw_data) < count * dt.val.itemsize
                          THEN Raise("TypeError")
                     ELSE Return(Elements(raw_data, dt.val, count))))

convert_data_y(raw_data, head) ==
    LET points_modifier == IF head[K_PT_FMT].s \in {T_ENV, T_XY} THEN 2 ELSE 1
    IN  Let(RawArray(raw_data, head, points_modifier), LAMBDA raw :
            IF ~raw.ok THEN raw
            ELSE Let(Numbers(head, <<K_YOFF, K_YMULT, K_YZERO>>), LAMBDA cal :
                     IF ~cal.ok THEN cal
                     ELSE Return(Calibrate(raw.val, cal.val[1], cal.val[2], cal.val[3]))))

MutConvertDataX(raw_data, head) ==
    Let(RawArray(raw_data, head, 2), LAMBDA raw :
        IF ~raw.ok THEN raw
        ELSE Let(Numbers(head, <<K_PT_OFF, K_XINCR, K_XZERO>>), LAMBDA cal :
                 IF ~cal.ok THEN cal
                 ELSE Return(Calibrate(raw.val, cal.val[1], cal.val[3], cal.val[2]))))

convert_data_x(raw_data, head) ==
    IF head[K_PT_FMT].s # T_XY THEN Raise("AssertionError")
    ELSE Let(RawArray(raw_data, head, 2), LAMBDA raw :
             IF ~raw.ok THEN raw
             ELSE Let(Numbers(head, <<K_PT_OFF, K_XINCR, K_XZERO>>), LAMBDA cal :
                      IF ~cal.ok THEN cal
                      ELSE Return(Calibrate(raw.val, cal.val[1], cal.val[2], cal.val[3]))))

-----------------------------------------------------------------------------
(* read_isf *)

\* fid.read(1024)
HeadBytes == 1024

\* What read_isf returns: (x_data, y_data, head), with what get_head found.
ReadResult(x, y, head, h) ==
    [ok |-> TRUE, exc |-> "", x |-> x, y |-> y, head |-> head,
     data_start |-> h.data_start, data_size |-> h.data_size, warned |-> h.warned]

\* A str header value equal to one of the tokens.
IsOneOf(v, tokens) == v.t = "str" /\ v.s \in tokens

\* The end of the "Y" and "ENV" branches, with head["XSTOP"] set and x_data
\* made: the payload is read and converted.
ReadPayload(data, h, head, x_data) ==
    IF ~x_data.ok THEN x_data
    ELSE Let(read_data_from_file(data, h.data_start, h.data_size), LAMBDA raw_data :
             IF ~raw_data.ok THEN raw_data
             ELSE Let(convert_data_y(raw_data.val, head), LAMBDA y_data :
                      IF ~y_data.ok THEN y_data
                      ELSE ReadResult(x_data.val, y_data.val, head, h)))

\* The "Y" branch.
ReadY(data, h, build) ==
    Let(Numbers(h.head, <<K_XZERO, K_XINCR, K_NR_PT>>), LAMBDA xs :
        IF ~xs.ok THEN xs
        ELSE Let(xs.val[1] + Times(xs.val[2], xs.val[3]), LAMBDA XSTOP :
             Let(DictSet(h.head, K_XSTOP, PyFloat(XSTOP)), LAMBDA head :
             Let(Linspace(xs.val[1], XSTOP - xs.val[2], head[K_NR_PT],
                          get_numpy_fmt(head).val, build), LAMBDA x_data :
                 ReadPayload(data, h, head, x_data)))))

\* The "ENV" branch.  XSTOP is XZERO + ((XINCR * NR_PT) // 2), and num is
\* NR_PT / 2, a float.
ReadENV(data, h, build) ==
    Let(Numbers(h.head, <<K_XZERO, K_XINCR, K_NR_PT>>), LAMBDA xs :
        IF ~xs.ok THEN xs
        ELSE Let(xs.val[1] + 2 * (Times(xs.val[2], xs.val[3]) \div 4), LAMBDA XSTOP :
             Let(DictSet(h.head, K_XSTOP, PyFloat(XSTOP)), LAMBDA head :
             Let(Linspace(xs.val[1], XSTOP - xs.val[2],
                          PyFloat(AsHalves(head[K_NR_PT]) \div 2),
                          get_numpy_fmt(head).val, build), LAMBDA x_data :
                 ReadPayload(data, h, head, x_data)))))

\* The "XY" branch.
ReadXY(data, h) ==
    LET half == h.data_size \div 2
    IN  Let(read_data_from_file(data, h.data_start, half), LAMBDA raw_data_x :
        IF ~raw_data_x.ok THEN raw_data_x
        ELSE Let(convert_data_x(raw_data_x.val, h.head), LAMBDA x_data :
        IF ~x_data.ok THEN x_data
        ELSE Let(read_data_from_file(data, h.data_start + half, half), LAMBDA raw_data_y :
        IF ~raw_data_y.ok THEN raw_data_y
        ELSE Let(convert_data_y(raw_data_y.val, h.head), LAMBDA y_data :
        IF ~y_data.ok THEN y_data
        ELSE ReadResult(x_data.val, y_data.val, h.head, h)))))

MutReadBody(data, hd, build) ==
    LET head == hd.val.head
    IN  IF ~hd.ok THEN hd
        ELSE IF ~get_numpy_fmt(head).ok THEN get_numpy_fmt(head)
        ELSE IF K_PT_FMT \notin DOMAIN head THEN Raise("KeyError")
        ELSE IF ~IsOneOf(head[K_PT_FMT], {T_Y, T_ENV, T_XY}) THEN Raise("AssertionError")
        ELSE IF K_ENCDG \notin DOMAIN head THEN Raise("KeyError")
        ELSE IF ~IsOneOf(head[K_ENCDG], {T_BIN, T_BINARY}) THEN Raise("AssertionError")
        ELSE IF head[K_PT_FMT].s = T_Y THEN ReadY(data, hd.val, build)
        ELSE IF head[K_PT_FMT].s = T_ENV THEN ReadENV(data, hd.val, build)
        ELSE ReadXY(data, hd.val)

\* What read_isf does with what get_head returned.
ReadBody(data, hd, build) ==
    LET head == hd.val.head
    IN  IF ~hd.ok THEN hd
        ELSE IF K_PT_FMT \notin DOMAIN head THEN Raise("KeyError")
        ELSE IF ~IsOneOf(head[K_PT_FMT], {T_Y, T_ENV, T_XY}) THEN Raise("AssertionError")
        ELSE IF K_ENCDG \notin DOMAIN head THEN Raise("KeyError")
        ELSE IF ~IsOneOf(head[K_ENCDG], {T_BIN, T_BINARY}) THEN Raise("AssertionError")
        ELSE IF ~get_numpy_fmt(head).ok THEN get_numpy_fmt(head)
        ELSE IF head[K_PT_FMT].s = T_Y THEN ReadY(data, hd.val, build)
        ELSE IF head[K_PT_FMT].s = T_ENV THEN ReadENV(data, hd.val, build)
        ELSE ReadXY(data, hd.val)

\* read_isf(filename) of the file on disk d, on a numpy build.
read_isf(d, build) ==
    IF ~d.exists THEN Raise("AssertionError")
    ELSE Let(SubSeq(d.data, 1, Min(HeadBytes, Len(d.data))), LAMBDA raw_data :
         Let(get_head(raw_data), LAMBDA hd : ReadBody(d.data, hd, build)))

-----------------------------------------------------------------------------
(* The files an oscilloscope saves (the header reference of the module
   docstring): a preamble of NAME value; fields, ":CURVE #" with the count of
   length digits and the length, and the payload *)

\* A float in halves as an NR3 number: 2 is 1.0E+0, 3 is 15.0E-1.
NR3(h) ==
    LET mag == IF h < 0 THEN -h ELSE h
        sgn == IF h < 0 THEN Txt(<<"-">>) ELSE <<>>
    IN  IF mag % 2 = 0 THEN sgn \o DecStr(mag \div 2) \o Txt(<<".","0","E","+","0">>)
        ELSE sgn \o DecStr(5 * mag) \o Txt(<<".","0","E","-","1">>)

Field(name, value) == name \o <<32>> \o value \o <<59>>

\* ":CURVE #<n><length>"
CurveMarker(length) ==
    Txt(<<":","C","U","R","V","E"," ","#">>)
        \o DecStr(Len(DecStr(length))) \o DecStr(length)

\* The preamble of a waveform file; f gives the fields.
Preamble(f) ==
    Txt(<<":","W","F","M","P","R","E",":">>)
    \o Field(K_BYT_NR, DecStr(f.byt_nr))
    \o Field(K_BIT_NR, DecStr(8 * f.byt_nr))
    \o Field(K_ENCDG, f.encdg)
    \o Field(K_BN_FMT, f.bn_fmt)
    \o Field(K_BYT_OR, f.byt_or)
    \o Field(K_NR_PT, DecStr(f.nr_pt))
    \o Field(Txt(<<"W","F","I","D">>), Txt(<<"\"","C","h","1",","," ","D","C","\"">>))
    \o Field(K_PT_FMT, f.pt_fmt)
    \o Field(K_XINCR, NR3(f.xincr))
    \o Field(K_PT_OFF, NR3(f.pt_off))
    \o Field(K_XZERO, NR3(f.xzero))
    \o Field(Txt(<<"X","U","N","I","T">>), Txt(<<"\"","s","\"">>))
    \o Field(K_YMULT, NR3(f.ymult))
    \o Field(K_YZERO, NR3(f.yzero))
    \o Field(K_YOFF, NR3(f.yoff))
    \o Field(Txt(<<"Y","U","N","I","T">>), Txt(<<"\"","V","\"">>))
    \o CurveMarker(f.declared)

\* Sample bytes: none is ';', ':' or '"', and none gives a binary16 element
\* an all-ones exponent.
SampleBytes == <<60, 0, 1, 200, 0, 56, 2, 62, 129, 3>>

Payload(k) == [i \in 1..k |-> SampleBytes[((i - 1) % Len(SampleBytes)) + 1]]

WaveformFile(f) == Preamble(f) \o Payload(f.held)

MaxPts == 4
MaxBytNr == 2

\* Calibration sets: XINCR, XZERO, PT_OFF, YMULT, YOFF, YZERO, in halves.
Calibrations ==
    { [xincr |-> 1, xzero |-> 0,  pt_off |-> 0, ymult |-> 2, yoff |-> 0, yzero |-> 0],
      [xincr |-> 2, xzero |-> -3, pt_off |-> 2, ymult |-> 4, yoff |-> 2, yzero |-> 1],
      [xincr |-> 3, xzero |-> 4,  pt_off |-> 4, ymult |-> 1, yoff |-> -2, yzero |-> 3] }

\* The waveform files of the model.  declared is the length the marker
\* gives, BYT_NR * NR_PT or one element more or less; held is the number of
\* payload bytes the file really holds, declared or one byte less.
Waveforms ==
    { [byt_nr |-> nr, bn_fmt |-> bf, byt_or |-> bo, nr_pt |-> n, pt_fmt |-> pf,
       encdg |-> T_BIN,
       xincr |-> c.xincr, xzero |-> c.xzero, pt_off |-> c.pt_off,
       ymult |-> c.ymult, yoff |-> c.yoff, yzero |-> c.yzero,
       declared |-> nr * n + d * nr, held |-> nr * n + d * nr - m] :
        nr \in 1..MaxBytNr, bf \in {T_RI, T_RP, T_FP}, bo \in {T_MSB, T_LSB},
        n \in 0..MaxPts, pf \in {T_Y, T_ENV, T_XY}, c \in Calibrations,
        d \in {-1, 0, 1}, m \in {0, 1} }

Builds == {"1.17", "1.19", "1.20"}

Init ==
    /\ numpy \in Builds
    /\ \E f \in Waveforms :
          /\ f.held >= 0
          /\ disk = [exists |-> TRUE, data |-> WaveformFile(f)]
          /\ call = [fn |-> "read_isf", file |-> f]
    /\ ret = None
    /\ pc = "start"

ReadIsf ==
    /\ pc = "start"
    /\ call.fn = "read_isf"
    /\ ret' = read_isf(disk, numpy)
    /\ pc' = "done"
    /\ UNCHANGED <<numpy, disk, call>>

Next == ReadIsf

Spec == Init /\ [][Next]_vars

\* The element dtype a file's tokens and width describe.
FileDtype(f) ==
    [byteorder |-> fmt_isf_to_numpy[f.byt_or][1],
     kind      |-> fmt_isf_to_numpy[f.bn_fmt][1],
     itemsize  |-> f.byt_nr]

\* numpy has the element type.
Supported(f) == f.byt_nr \in ItemSizes(FileDtype(f).kind)

\* The marker gives BYT_NR * NR_PT and the file holds that many bytes.
Valid(f) ==
    /\ Supported(f)
    /\ f.declared = f.byt_nr * f.nr_pt
    /\ f.held = f.declared

\* Element i (from 1) of the payload read as elements from byte offset off of
\* the payload, in halves.
Sample(f, off, i) ==
    LET S == Len(Preamble(f))
        w == f.byt_nr
    IN  Element(SubSeq(disk.data, S + off + (i - 1) * w + 1, S + off + i * w),
                FileDtype(f))

\* C1 (as claimed): a valid Y file with a supported descriptor reads as X and
\* Y of NR_PT elements each, with X[i] = XZERO + XINCR * i whatever the
\* payload's element type.
C1_YLayout ==
    (pc = "done" /\ call.file.pt_fmt = T_Y /\ Valid(call.file)) =>
        /\ ret.ok
        /\ Len(ret.x.vals) = call.file.nr_pt
        /\ Len(ret.y.vals) = call.file.nr_pt
        /\ \A i \in 1..call.file.nr_pt :
               ret.x.vals[i] = call.file.xzero + call.file.xincr * (i - 1)

\* C2 (as claimed): a valid ENV file reads successfully, as Y of NR_PT
\* elements and X of NR_PT // 2 elements.
C2_ENVLayout ==
    (pc = "done" /\ call.file.pt_fmt = T_ENV /\ Valid(call.file)) =>
        /\ ret.ok
        /\ Len(ret.y.vals) = call.file.nr_pt
        /\ Len(ret.x.vals) = call.file.nr_pt \div 2

Mismatched(f) ==
    /\ Supported(f)
    /\ f.declared # f.byt_nr * f.nr_pt
    /\ f.held = f.declared

\* C8 (as claimed, on Y files of two or more points): a declared length larger
\* or smaller than BYT_NR * NR_PT is only a warning; read_isf still succeeds and returns
\* arrays of NR_PT elements.
C8_MismatchOnlyWarns ==
    (/\ pc = "done"
     /\ call.file.pt_fmt = T_Y
     /\ call.file.nr_pt >= 2
     /\ Mismatched(call.file)) =>
        /\ ret.ok
        /\ ret.warned
        /\ Len(ret.x.vals) = call.file.nr_pt
        /\ Len(ret.y.vals) = call.file.nr_pt

\* C9 (as claimed, its last part, on files of two or more points whose marker
\* agrees with BYT_NR * NR_PT): when the file holds fewer payload bytes than
\* the marker declares, read_isf fails and returns no arrays.
C9_TruncatedNeverReturns ==
    (/\ pc = "done"
     /\ Supported(call.file)
     /\ call.file.nr_pt >= 2
     /\ call.file.declared = call.file.byt_nr * call.file.nr_pt
     /\ call.file.held < call.file.declared) =>
        ~ret.ok

-----------------------------------------------------------------------------
(* write_isf_xy and head_to_str *)

K_WFID == Txt(<<"W","F","I","D">>)
K_XUNIT == Txt(<<"X","U","N","I","T">>)
K_YUNIT == Txt(<<"Y","U","N","I","T">>)
K_VSCALE == Txt(<<"V","S","C","A","L","E">>)
K_HSCALE == Txt(<<"H","S","C","A","L","E">>)
K_VPOS == Txt(<<"V","P","O","S">>)
K_VOFFSET == Txt(<<"V","O","F","F","S","E","T">>)
K_HDELAY == Txt(<<"H","D","E","L","A","Y">>)
K_DOMAIN == Txt(<<"D","O","M","A","I","N">>)
K_WFMTYPE == Txt(<<"W","F","M","T","Y","P","E">>)
K_CENTERFREQUENCY == Txt(<<"C","E","N","T","E","R","F","R","E","Q","U","E","N","C","Y">>)
K_SPAN == Txt(<<"S","P","A","N">>)
K_REFLEVEL == Txt(<<"R","E","F","L","E","V","E","L">>)

\* The digits of n in k places, zeros in front.
RECURSIVE ZeroPad(_, _)
ZeroPad(n, k) ==
    IF k <= 0 THEN <<>> ELSE Append(ZeroPad(n \div 10, k - 1), 48 + (n % 10))

\* The power of ten of a positive number of halves h: the e with
\* 10^e <= h / 2 < 10^(e + 1), looked for from e upwards.
RECURSIVE Exponent(_, _)
Exponent(h, e) ==
    IF e < 0 THEN (IF h * Pow10(-e) >= 2 THEN e ELSE Exponent(h, e - 1))
    ELSE IF h < 2 * Pow10(e + 1) THEN
            (IF h >= 2 * Pow10(e) THEN e ELSE Exponent(h, e - 1))
    ELSE Exponent(h, e + 1)

\* format(v, "e") of a float in halves: a sign, one digit, a point, six
\* digits, "e", the exponent's sign and at least two digits of it.  (Floats
\* of up to four digits before the point, which print exactly.)
FormatE(h) ==
    LET mag == IF h < 0 THEN -h ELSE h
        e   == IF mag = 0 THEN 0 ELSE Exponent(mag, 0)
        lead == IF e >= 0 THEN mag \div (2 * Pow10(e)) ELSE (mag * Pow10(-e)) \div 2
        rest == IF e >= 0 THEN mag - 2 * Pow10(e) * lead ELSE 0
        frac == IF e >= 0 THEN (rest * Pow10(6 - e)) \div 2 ELSE 0
        ea  == IF e < 0 THEN -e ELSE e
    IN  (IF h < 0 THEN <<45>> ELSE <<>>)
        \o <<48 + lead, 46>> \o ZeroPad(frac, 6) \o <<101>>
        \o (IF e < 0 THEN <<45>> ELSE <<43>>)
        \o (IF ea < 10 THEN ZeroPad(ea, 2) ELSE DecStr(ea))

\* f"{v}" of a header value and f"{v:e}" of a number.
Plain(head, key) == PyStrOf(head[key])
Sci(head, key) == FormatE(AsHalves(head[key]))

\* "<label> <value>;"
Token(label, value) == label \o <<32>> \o value \o <<59>>

\* The fields head_to_str renders, in its order: the label written, the key
\* read and whether the value is formatted with ":e".
HeadFields ==
    <<[label |-> Txt(<<":","W","F","M","P","R","E",":","N","R","_","P","T">>), key |-> K_NR_PT, sci |-> FALSE],
      [label |-> Txt(<<":","W","F","M","P","R","E",":","B","Y","T","_","N","R">>), key |-> K_BYT_NR, sci |-> FALSE],
      [label |-> K_BIT_NR, key |-> K_BIT_NR, sci |-> FALSE],
      [label |-> K_ENCDG, key |-> K_ENCDG, sci |-> FALSE],
      [label |-> K_BN_FMT, key |-> K_BN_FMT, sci |-> FALSE],
      [label |-> K_BYT_OR, key |-> K_BYT_OR, sci |-> FALSE],
      [label |-> K_WFID, key |-> K_WFID, sci |-> FALSE],
      [label |-> K_NR_PT, key |-> K_NR_PT, sci |-> FALSE],
      [label |-> K_PT_FMT, key |-> K_PT_FMT, sci |-> FALSE],
      [label |-> K_XUNIT, key |-> K_XUNIT, sci |-> FALSE],
      [label |-> K_XINCR, key |-> K_XINCR, sci |-> TRUE],
      [label |-> K_XZERO, key |-> K_XZERO, sci |-> TRUE],
      [label |-> K_PT_OFF, key |-> K_PT_OFF, sci |-> TRUE],
      [label |-> K_YUNIT, key |-> K_YUNIT, sci |-> FALSE],
      [label |-> K_YMULT, key |-> K_YMULT, sci |-> TRUE],
      [label |-> K_YOFF, key |-> K_YOFF, sci |-> TRUE],
      [label |-> K_YZERO, key |-> K_YZERO, sci |-> TRUE],
      [label |-> K_VSCALE, key |-> K_VSCALE, sci |-> TRUE],
      [label |-> K_HSCALE, key |-> K_HSCALE, sci |-> TRUE],
      [label |-> K_VPOS, key |-> K_VPOS, sci |-> TRUE],
      [label |-> K_VOFFSET, key |-> K_VOFFSET, sci |-> TRUE],
      [label |-> K_HDELAY, key |-> K_HDELAY, sci |-> TRUE],
      [label |-> K_DOMAIN, key |-> K_DOMAIN, sci |-> FALSE],
      [label |-> K_WFMTYPE, key |-> K_WFMTYPE, sci |-> FALSE],
      [label |-> K_CENTERFREQUENCY, key |-> K_CENTERFREQUENCY, sci |-> TRUE],
      [label |-> K_SPAN, key |-> K_SPAN, sci |-> TRUE],
      [label |-> K_REFLEVEL, key |-> K_REFLEVEL, sci |-> TRUE]>>

RECURSIVE HeadTokens(_, _)
HeadTokens(head, i) ==
    IF i > Len(HeadFields) THEN <<>>
    ELSE Token(HeadFields[i].label,
               IF HeadFields[i].sci THEN Sci(head, HeadFields[i].key)
               ELSE Plain(head, HeadFields[i].key))
         \o HeadTokens(head, i + 1)

\* head_to_str(head): the tokens, then ":CURVE #", the count of digits of
\* NR_PT * BYT_NR and the number itself.
head_to_str(head) ==
    LET number_of_bytes == head[K_NR_PT].n * head[K_BYT_NR].n
        digits == Len(DecStr(number_of_bytes))
    IN  HeadTokens(head, 1)
        \o Txt(<<":","C","U","R","V","E"," ","#">>) \o DecStr(digits) \o DecStr(number_of_bytes)

\* The header write_isf_xy makes for n points of a dtype that unresolves to
\* fmt = (BYT_OR, BN_FMT, BYT_NR).
XYHead(n, fmt) ==
    (K_ENCDG :> PyStr(T_BINARY)) @@
    (K_WFID :> PyStr(Txt(<<"P","y","t","h","o","n"," ","i","s","f","-","c","o","n","v","e","r","t","e","r","-","p","y"," ","X","Y","-","c","u","r","v","e">>))) @@
    (K_NR_PT :> PyInt(n * 2)) @@
    (K_PT_FMT :> PyStr(T_XY)) @@
    (K_XUNIT :> PyStr(Txt(<<"a",".","u",".">>))) @@
    (K_YUNIT :> PyStr(Txt(<<"a",".","u",".">>))) @@
    (K_VSCALE :> PyFloat(2)) @@
    (K_HSCALE :> PyFloat(2)) @@
    (K_VPOS :> PyFloat(0)) @@
    (K_VOFFSET :> PyFloat(0)) @@
    (K_HDELAY :> PyFloat(0)) @@
    (K_DOMAIN :> PyStr(Txt(<<"T","I","M","E">>))) @@
    (K_WFMTYPE :> PyStr(Txt(<<"A","N","A","L","O","G">>))) @@
    (K_CENTERFREQUENCY :> PyFloat(0)) @@
    (K_SPAN :> PyFloat(0)) @@
    (K_REFLEVEL :> PyFloat(0)) @@
    (K_BYT_OR :> PyStr(fmt[1])) @@
    (K_BN_FMT :> PyStr(fmt[2])) @@
    (K_BYT_NR :> PyInt(fmt[3])) @@
    (K_BIT_NR :> PyInt(fmt[3] * 8)) @@
    (K_XZERO :> PyFloat(0)) @@
    (K_XINCR :> PyFloat(2)) @@
    (K_PT_OFF :> PyFloat(0)) @@
    (K_YZERO :> PyFloat(0)) @@
    (K_YMULT :> PyFloat(2)) @@
    (K_YOFF :> PyFloat(0))

\* An ndarray: its number of dimensions, the length of its first one, its
\* dtype and its bytes (tobytes()).
NdArray(ndim, n, dtype, buf) == [ndim |-> ndim, n |-> n, dtype |-> dtype, buf |-> buf]

\* dtype == dtype: the byte order of one-byte elements does not count.
SameDtype(a, b) == DtypeStr(a) = DtypeStr(b)

MutWriteIsfXY(arr_x, arr_y, d) ==
    LET fmt == get_isf_fmt(arr_y.dtype)
        head_str == head_to_str(XYHead(arr_y.n, fmt.val))
        opened == [exists |-> TRUE, data |-> <<>>]
    IN  IF arr_x.ndim # 1 \/ arr_y.ndim # 1 THEN [ret |-> Raise("AssertionError"), disk |-> opened]
        ELSE IF arr_x.n # arr_y.n THEN [ret |-> Raise("AssertionError"), disk |-> opened]
        ELSE IF ~SameDtype(arr_x.dtype, arr_y.dtype)
             THEN [ret |-> Raise("AssertionError"), disk |-> opened]
        ELSE IF ~fmt.ok THEN [ret |-> fmt, disk |-> opened]
        ELSE [ret |-> Return(<<>>),
              disk |-> [exists |-> TRUE, data |-> head_str \o arr_x.buf \o arr_y.buf]]

\* write_isf_xy(arr_x, arr_y, filename) with the file d on disk: what it
\* raises or returns, and the file afterwards.  The file is opened with "w"
\* for the header and with "ab" for the bytes of X and then of Y.
write_isf_xy(arr_x, arr_y, d) ==
    LET fmt == get_isf_fmt(arr_y.dtype)
        head_str == head_to_str(XYHead(arr_y.n, fmt.val))
    IN  IF arr_x.ndim # 1 \/ arr_y.ndim # 1 THEN [ret |-> Raise("AssertionError"), disk |-> d]
        ELSE IF arr_x.n # arr_y.n THEN [ret |-> Raise("AssertionError"), disk |-> d]
        ELSE IF ~SameDtype(arr_x.dtype, arr_y.dtype)
             THEN [ret |-> Raise("AssertionError"), disk |-> d]
        ELSE IF ~fmt.ok THEN [ret |-> fmt, disk |-> d]
        ELSE [ret |-> Return(<<>>),
              disk |-> [exists |-> TRUE, data |-> head_str \o arr_x.buf \o arr_y.buf]]

-----------------------------------------------------------------------------
(* SpecRT: write_isf_xy of two arrays, then read_isf of the file written *)

\* The most elements an array holds.
MaxElems == 2

\* The dtypes of the arrays: both byte orders, signed, unsigned and float, of
\* the widths up to MaxBytNr that numpy has.
ArrayDtypes ==
    { dt \in [byteorder : {Ch("<"), Ch(">")},
              kind : {Ch("i"), Ch("u"), Ch("f")},
              itemsize : 1..MaxBytNr] :
        dt.itemsize \in ItemSizes(dt.kind) }

\* The bytes of an array of n elements of a dtype, taken from the sample bytes
\* from position from on.
ArrayBytes(n, dtype, from) ==
    [i \in 1..(n * dtype.itemsize) |->
        SampleBytes[((from + i - 2) % Len(SampleBytes)) + 1]]

InitRT ==
    /\ numpy = "1.20"
    /\ disk \in {NoDisk, [exists |-> TRUE, data |-> <<1, 2, 3>>]}
    /\ \E dx \in ArrayDtypes, dy \in ArrayDtypes, n \in 0..MaxElems,
          more \in {0, 1}, ndim \in {1, 2} :
          /\ dy.itemsize = dx.itemsize
          /\ dy.byteorder = dx.byteorder
          /\ call = [fn |-> "write_isf_xy",
                     arr_x |-> NdArray(ndim, n, dx, ArrayBytes(n, dx, 1)),
                     arr_y |-> NdArray(1, n + more, dy, ArrayBytes(n + more, dy, 4))]
    /\ ret = None
    /\ pc = "start"

WriteIsfXY ==
    /\ pc = "start"
    /\ call.fn = "write_isf_xy"
    /\ LET w == write_isf_xy(call.arr_x, call.arr_y, disk)
       IN  /\ ret' = w.ret
           /\ disk' = w.disk
           /\ pc' = IF w.ret.ok THEN "written" ELSE "write_failed"
    /\ UNCHANGED <<numpy, call>>

ReadBack ==
    /\ pc = "written"
    /\ ret' = read_isf(disk, numpy)
    /\ pc' = "read"
    /\ UNCHANGED <<numpy, disk, call>>

NextRT == WriteIsfXY \/ ReadBack

SpecRT == InitRT /\ [][NextRT]_vars

\* Two one-dimensional arrays of the same length and the same dtype.
Writable(x, y) ==
    /\ x.ndim = 1
    /\ y.ndim = 1
    /\ x.n = y.n
    /\ SameDtype(x.dtype, y.dtype)

\* C4 (as claimed): write_isf_xy of two equal-length one-dimensional arrays
\* (of one element or more) of one supported element type succeeds, and read_isf of the file returns
\* their elements, in order.
C4_RoundTrip ==
    (/\ pc \in {"write_failed", "read"}
     /\ Writable(call.arr_x, call.arr_y)
     /\ call.arr_x.n >= 1) =>
        /\ pc = "read"
        /\ ret.ok
        /\ ret.x.vals = Elements(call.arr_x.buf, call.arr_x.dtype, call.arr_x.n)
        /\ ret.y.vals = Elements(call.arr_y.buf, call.arr_y.dtype, call.arr_y.n)

-----------------------------------------------------------------------------
(* SpecReject: read_isf on files whose ENCDG or PT_FMT may be one it does not
   support *)

\* "YT", a point format read_isf does not know.
T_YT == Txt(<<"Y","T">>)

\* Files of two points with every ENCDG and PT_FMT of the model, a BN_FMT that
\* is in the format table or not, and a payload that is whole or one byte
\* short.
RejectWaveforms ==
    { [byt_nr |-> nr, bn_fmt |-> bf, byt_or |-> T_MSB, nr_pt |-> 2, pt_fmt |-> pf,
       encdg |-> enc,
       xincr |-> 2, xzero |-> 0, pt_off |-> 0, ymult |-> 2, yoff |-> 0, yzero |-> 0,
       declared |-> 2 * nr, held |-> 2 * nr - m] :
        nr \in 1..MaxBytNr, bf \in {T_RI, T_ASCII},
        pf \in {T_Y, T_ENV, T_XY, T_YT}, enc \in {T_BIN, T_BINARY, T_ASCII},
        m \in {0, 1} }

InitReject ==
    /\ numpy \in Builds
    /\ \E f \in RejectWaveforms :
          /\ disk = [exists |-> TRUE, data |-> WaveformFile(f)]
          /\ call = [fn |-> "read_isf", file |-> f]
    /\ ret = None
    /\ pc = "start"

SpecReject == InitReject /\ [][Next]_vars

\* The header's ENCDG or PT_FMT is one read_isf does not support.
Rejected(f) ==
    \/ f.encdg \notin {T_BIN, T_BINARY}
    \/ f.pt_fmt \notin {T_Y, T_ENV, T_XY}

\* C11: read_isf of a file whose ENCDG is not BIN or BINARY, or whose PT_FMT
\* is not Y, ENV or XY, returns no arrays: it raises AssertionError, and does
\* so before it resolves the descriptor (a BN_FMT outside the table raises no
\* KeyError) and before it reads the payload (a payload that is short raises
\* no EOFError).
C11_RejectsUnsupported ==
    (pc = "done" /\ Rejected(call.file)) => ret = Raise("AssertionError")

\* A file with ENCDG ASCII, a BN_FMT outside the table and a payload one byte
\* short has been refused with AssertionError.
C11_Witness ==
    /\ pc = "done"
    /\ call.file.encdg = T_ASCII
    /\ call.file.pt_fmt = T_Y
    /\ call.file.bn_fmt = T_ASCII
    /\ call.file.held < call.file.declared
    /\ ret = Raise("AssertionError")

-----------------------------------------------------------------------------
(* SpecShape: write_isf_xy of two arrays of any two shapes and dtypes *)

\* Arrays of one or two dimensions, of the same length or not, of any two
\* dtypes, and a target file that is absent or holds three bytes; before is
\* the file as the call finds it.
InitShape ==
    /\ numpy = "1.20"
    /\ disk \in {NoDisk, [exists |-> TRUE, data |-> <<1, 2, 3>>]}
    /\ \E dx \in ArrayDtypes, dy \in ArrayDtypes, more \in {0, 1},
          ndim_x \in {1, 2}, ndim_y \in {1, 2} :
          call = [fn |-> "write_isf_xy",
                  arr_x |-> NdArray(ndim_x, 1, dx, ArrayBytes(1, dx, 1)),
                  arr_y |-> NdArray(ndim_y, 1 + more, dy, ArrayBytes(1 + more, dy, 4)),
                  before |-> disk]
    /\ ret = None
    /\ pc = "start"

SpecShape == InitShape /\ [][NextRT]_vars

\* C12: write_isf_xy of two arrays that are not both one-dimensional, or are of
\* different lengths, or of different dtypes, fails with AssertionError (the
\* error the asserts raise), and the target file is as the call found it:
\* absent if it was absent, with the same bytes if it was there.
C12_MismatchLeavesFile ==
    (pc # "start" /\ ~Writable(call.arr_x, call.arr_y)) =>
        /\ pc = "write_failed"
        /\ ret = Raise("AssertionError")
        /\ disk = call.before

\* A call with arrays of different lengths and a target file that was there
\* has failed.
C12_Witness ==
    /\ pc = "write_failed"
    /\ call.arr_x.ndim = 1
    /\ call.arr_y.ndim = 1
    /\ call.arr_x.n # call.arr_y.n
    /\ call.before.exists
    /\ ret = Raise("AssertionError")

-----------------------------------------------------------------------------
(* SpecBatch: main() of isfconverter.py over a list of files *)

\* The most files in a batch.
MaxBatch == 3

\* A file of n one-byte points with a PT_FMT and an ENCDG.
BatchFile(n, pf, enc) ==
    [byt_nr |-> 1, bn_fmt |-> T_RI, byt_or |-> T_MSB, nr_pt |-> n,
     pt_fmt |-> pf, encdg |-> enc,
     xincr |-> 2, xzero |-> 0, pt_off |-> 0, ymult |-> 2, yoff |-> 0, yzero |-> 0,
     declared |-> n, held |-> n]

\* The files of a batch: two XY files read_isf converts, one with ENCDG ASCII
\* and one with PT_FMT YT.
BatchFiles ==
    { BatchFile(2, T_XY, T_BIN), BatchFile(4, T_XY, T_BIN),
      BatchFile(2, T_XY, T_ASCII), BatchFile(2, T_YT, T_BIN) }

\* The lists of one to k files.
RECURSIVE Batches(_)
Batches(k) ==
    IF k = 0 THEN {}
    ELSE Batches(k - 1) \cup [1..k -> BatchFiles]

\* No CSV file.
NoCsv == [exists |-> FALSE, rows |-> <<>>]

\* save_csv(filename, x, y, head): one row of x[row], y[row] for every row of
\* x (the text of a row is the CSV layer's); IndexError when y is shorter.
save_csv(x, y) ==
    IF Len(y.vals) < Len(x.vals) THEN Raise("IndexError")
    ELSE Return([exists |-> TRUE,
                 rows |-> [row \in 1..Len(x.vals) |-> <<x.vals[row], y.vals[row]>>]])

\* The files are on disk and no CSV file is; main is at the first file of
\* args.files.
InitBatch ==
    /\ numpy = "1.20"
    /\ \E files \in Batches(MaxBatch) :
          /\ call = [fn |-> "main", files |-> files]
          /\ disk = [isf |-> [i \in 1..Len(files) |->
                                 [exists |-> TRUE, data |-> WaveformFile(files[i])]],
                     csv |-> [i \in 1..Len(files) |-> NoCsv]]
    /\ ret = None
    /\ pc = [at |-> "for", idx |-> 1]

\* One pass of the loop of main: read_isf of the file and save_csv of what it
\* returned.  Nothing catches what either raises: the interpreter prints the
\* traceback and exits.
ConvertFile ==
    /\ pc.at = "for"
    /\ pc.idx <= Len(call.files)
    /\ ret' = Let(read_isf(disk.isf[pc.idx], numpy), LAMBDA r :
                  IF r.ok THEN save_csv(r.x, r.y) ELSE r)
    /\ disk' = IF ret'.ok THEN [disk EXCEPT !.csv[pc.idx] = ret'.val] ELSE disk
    /\ pc' = IF ret'.ok THEN [pc EXCEPT !.idx = pc.idx + 1]
             ELSE [pc EXCEPT !.at = "traceback"]
    /\ UNCHANGED <<numpy, call>>

\* The loop has gone through args.files: main returns.
MainReturns ==
    /\ pc.at = "for"
    /\ pc.idx > Len(call.files)
    /\ pc' = [pc EXCEPT !.at = "exit"]
    /\ UNCHANGED <<numpy, disk, call, ret>>

NextBatch == ConvertFile \/ MainReturns

SpecBatch == InitBatch /\ [][NextBatch]_vars

\* main runs on while it has not returned or raised.
FairBatch == SpecBatch /\ WF_vars(NextBatch)

\* A file read_isf converts: supported ENCDG and PT_FMT, a marker that agrees
\* with BYT_NR * NR_PT, and all the payload bytes.
WellFormed(f) == Valid(f) /\ ~Rejected(f)

\* C13 (as claimed): in a batch run, every well-formed file of the batch, listed
\* before or after a malformed one, is converted in the end and its CSV file
\* written.
C13_SiblingsConverted ==
    <>(\A i \in 1..Len(call.files) :
          WellFormed(call.files[i]) => disk.csv[i].exists)

-----------------------------------------------------------------------------
(* SpecMarker: head_to_str of a head, and get_head of the text it renders
   followed by the payload *)

\* The most points of a head, the huge one aside.
MaxNrPt == 12

\* A number of points whose eight-byte elements take 10^9 bytes.
HugeNrPt == 125000000

\* The head write_isf_xy makes, with any NR_PT and BYT_NR.
MarkerHead(nr_pt, byt_nr) ==
    DictSet(XYHead(0, <<T_MSB, T_RI, byt_nr>>), K_NR_PT, PyInt(nr_pt))

InitMarker ==
    /\ numpy = "1.20"
    /\ disk = NoDisk
    /\ \E nr_pt \in (0..MaxNrPt) \cup {HugeNrPt}, byt_nr \in {1, 2, 4, 8} :
          call = [fn |-> "head_to_str", head |-> MarkerHead(nr_pt, byt_nr)]
    /\ ret = None
    /\ pc = "start"

\* head_to_str(head), and the file write_isf_xy makes of it: the text, then
\* NR_PT * BYT_NR bytes (of which the file of the model holds no more than the
\* first read of read_isf can reach).
HeadToStr ==
    /\ pc = "start"
    /\ call.fn = "head_to_str"
    /\ ret' = Return(head_to_str(call.head))
    /\ disk' = [exists |-> TRUE,
                data |-> ret'.val
                         \o Payload(Min(call.head[K_NR_PT].n * call.head[K_BYT_NR].n,
                                        HeadBytes))]
    /\ pc' = "rendered"
    /\ UNCHANGED <<numpy, call>>

\* get_head of the first bytes of the file, as read_isf calls it.
GetHeadOfRendered ==
    /\ pc = "rendered"
    /\ ret' = get_head(SubSeq(disk.data, 1, Min(HeadBytes, Len(disk.data))))
    /\ pc' = "parsed"
    /\ UNCHANGED <<numpy, disk, call>>

NextMarker == HeadToStr \/ GetHeadOfRendered

SpecMarker == InitMarker /\ [][NextMarker]_vars

\* The position of the last '#' of a text (0 if it has none).
LastHash(text) ==
    IF \A i \in 1..Len(text) : text[i] # Ch("#") THEN 0
    ELSE CHOOSE i \in 1..Len(text) :
             /\ text[i] = Ch("#")
             /\ \A j \in (i + 1)..Len(text) : text[j] # Ch("#")

\* The text ends with '#', one digit n and n decimal digits that spell the
\* number, and nothing more.
EndsWithMarker(text, number) ==
    LET hash == LastHash(text)
    IN  /\ hash >= 1
        /\ hash + 1 <= Len(text)
        /\ IsDigit(text[hash + 1])
        /\ Len(text) = hash + 1 + (text[hash + 1] - 48)
        /\ SubSeq(text, hash + 2, Len(text)) = DecStr(number)

\* C14 (as claimed): for every NR_PT and BYT_NR, the text head_to_str renders
\* ends with '#', one digit n and n digits that spell NR_PT * BYT_NR; and
\* get_head of that text followed by the payload returns data_size equal to
\* NR_PT * BYT_NR and data_start equal to the length of the text.
C14_MarkerRoundTrip ==
    LET number_of_bytes == call.head[K_NR_PT].n * call.head[K_BYT_NR].n
    IN  /\ pc = "rendered" => EndsWithMarker(ret.val, number_of_bytes)
        /\ pc = "parsed" =>
              /\ ret.ok
              /\ ret.val.data_size = number_of_bytes
              /\ ret.val.data_start = Len(head_to_str(call.head))

-----------------------------------------------------------------------------
(* SpecPair: get_head on two raw strings with the same preamble and marker and
   different payload bytes *)

\* The bytes a marker of length 10 announces.
PairBytes == 10

\* Preambles up to and including the binary-block marker "#210".
PairPrefixes ==
    { Txt(<<":","W","F","M","P","R","E",":","B","Y","T","_","N","R"," ","1",
            ";","N","R","_","P","T"," ","1","0">>) \o mid \o curve :
        mid \in { <<>>, Txt(<<";","Y","O","F","F"," ","1",".","5">>) },
        curve \in { Txt(<<";","C","U","R","V","E"," ","#","2","1","0">>),
                    Txt(<<";",":","C","U","R","V","E"," ","#","2","1","0">>) } }

\* Payloads of PairBytes bytes: sample bytes, bytes with a ';' that starts no
\* field, and bytes that spell a field or a marker.
PairPayloads ==
    { Payload(PairBytes),
      Reversed(Payload(PairBytes)),
      <<200, 1, 0, 77, 59, 0, 129, 7, 7, 7>>,
      <<59, 65, 32, 5, 0, 0, 0, 0, 0, 0>>,
      Txt(<<";","Y","O","F","F"," ","2",".","5">>) \o <<0>>,
      Txt(<<";","C","U","R","V","E"," ","#","1","1">>) }

InitPair ==
    /\ numpy = "1.20"
    /\ disk = NoDisk
    /\ \E prefix \in PairPrefixes, p1 \in PairPayloads, p2 \in PairPayloads :
          call = [fn |-> "get_head", prefix |-> prefix,
                  raw_string |-> prefix \o p1, other |-> prefix \o p2]
    /\ ret = None
    /\ pc = "start"

\* get_head of the one raw string and get_head of the other.
GetHeadPair ==
    /\ pc = "start"
    /\ call.fn = "get_head"
    /\ ret' = <<get_head(call.raw_string), get_head(call.other)>>
    /\ pc' = "parsed"
    /\ UNCHANGED <<numpy, disk, call>>

NextPair == GetHeadPair

SpecPair == InitPair /\ [][NextPair]_vars

\* Two results of get_head are the same: both raise, or both return the same
\* head, data_start and data_size.
SameHead(a, b) ==
    /\ a.ok = b.ok
    /\ a.ok => /\ a.val.head = b.val.head
               /\ a.val.data_start = b.val.data_start
               /\ a.val.data_size = b.val.data_size

\* C15 (as claimed): for two raw strings that agree up to and including the
\* first binary-block marker and differ only in the payload bytes after it,
\* get_head returns the same head keys and values and the same data_start and
\* data_size.
C15_PayloadIndependent ==
    (/\ pc = "parsed"
     /\ SubSeq(call.raw_string, 1, Len(call.prefix)) = call.prefix
     /\ SubSeq(call.other, 1, Len(call.prefix)) = call.prefix
     /\ Len(call.raw_string) = Len(call.other)) =>
        SameHead(ret[1], ret[2])

=============================================================================
